---- MODULE Spec2Model ----
(***************************************************************************)
(* Model of backend/main.py of the narrator service: the sentence batching *)
(* function _split_into_batches and the request handlers /api/chat and     *)
(* /api/narrate with the per-chunk TTS fan-out.                            *)
(*                                                                         *)
(* A Python str is modelled as a sequence of one-character strings.        *)
(***************************************************************************)
EXTENDS Integers, Sequences, FiniteSets, TLC

\* ------------------------------------------------------------------ bounds
MaxLen == 5
MaxBudget == 5
MaxChunks == 3

\* ------------------------------------------------------- program constants
DefaultMaxChars == 200

\* --------------------------------------------------------------- characters
Letter == "a"
Alphabet == {Letter, ".", " ", "\n", "\t"}

\* the class \s of the re module and of str.strip(), on the modelled alphabet
IsSpace(c) == c \in {" ", "\t", "\n"}

\* the class [.!?] of the look-behind of the sentence split
IsTerminator(c) == c \in {".", "!", "?"}

\* -------------------------------------------------------------- str.strip()
Strip(s) ==
  IF \A i \in 1..Len(s) : IsSpace(s[i]) THEN <<>>
  ELSE LET lo == CHOOSE i \in 1..Len(s) :
                   ~IsSpace(s[i]) /\ \A j \in 1..(i-1) : IsSpace(s[j])
           hi == CHOOSE i \in 1..Len(s) :
                   ~IsSpace(s[i]) /\ \A j \in (i+1)..Len(s) : IsSpace(s[j])
       IN SubSeq(s, lo, hi)

\* length of the longest run of whitespace starting at pos (greedy \s*)
SpaceRun(s, pos) ==
  CHOOSE k \in 0..(Len(s) - pos + 1) :
    /\ \A j \in 0..(k-1) : IsSpace(s[pos + j])
    /\ (pos + k > Len(s) \/ ~IsSpace(s[pos + k]))

\* length of the longest run of "\n" starting at pos (greedy \n+)
NewlineRun(s, pos) ==
  CHOOSE k \in 0..(Len(s) - pos + 1) :
    /\ \A j \in 0..(k-1) : s[pos + j] = "\n"
    /\ (pos + k > Len(s) \/ s[pos + k] # "\n")

\* The pattern \s*\n+\s* tried at pos by the backtracking matcher: \s* takes
\* the longest prefix of the whitespace run that is still followed by "\n",
\* \n+ the newlines there, \s* the rest.  The index after the match, or 0
\* when the pattern does not match at pos.
NewlineMatchEnd(s, pos) ==
  LET run  == SpaceRun(s, pos)
      lead == {a \in 0..(run - 1) : s[pos + a] = "\n"}
  IN IF lead = {} THEN 0
     ELSE LET a == CHOOSE x \in lead : \A y \in lead : y <= x
              b == NewlineRun(s, pos + a)
              c == SpaceRun(s, pos + a + b)
          IN pos + a + b + c

\* the first position >= pos where \s*\n+\s* matches, 0 when there is none
NextNewlineMatch(s, pos) ==
  LET starts == {p \in pos..Len(s) : NewlineMatchEnd(s, p) # 0}
  IN IF starts = {} THEN 0
     ELSE CHOOSE p \in starts : \A q \in starts : p <= q

\* re.sub(r"\s*\n+\s*", " ", s): the leftmost non-overlapping matches are
\* replaced by one space, the text between them is copied
RECURSIVE SubScan(_, _, _)
SubScan(s, pos, out) ==
  LET p == NextNewlineMatch(s, pos)
  IN IF p = 0 THEN out \o SubSeq(s, pos, Len(s))
     ELSE SubScan(s, NewlineMatchEnd(s, p),
                  out \o SubSeq(s, pos, p - 1) \o <<" ">>)

\* line 136: normalized = re.sub(r"\s*\n+\s*", " ", text.strip())
NoNormalize(text) == Strip(text)

Normalize(text) == SubScan(Strip(text), 1, <<>>)

\* The pattern (?<=[.!?])\s+ tried at pos: the length of the match, 0 if none
BoundaryMatchLen(s, pos) ==
  IF pos > 1 /\ IsTerminator(s[pos - 1]) THEN SpaceRun(s, pos) ELSE 0

\* the first position >= pos where (?<=[.!?])\s+ matches, 0 when there is none
NextBoundaryMatch(s, pos) ==
  LET starts == {p \in pos..Len(s) : BoundaryMatchLen(s, p) > 0}
  IN IF starts = {} THEN 0
     ELSE CHOOSE p \in starts : \A q \in starts : p <= q

\* re.split(r'(?<=[.!?])\s+', s): the pieces between the leftmost
\* non-overlapping matches, the rest of the string last
RECURSIVE SplitScan(_, _, _)
SplitScan(s, start, pieces) ==
  LET p == NextBoundaryMatch(s, start)
  IN IF p = 0 THEN Append(pieces, SubSeq(s, start, Len(s)))
     ELSE SplitScan(s, p + BoundaryMatchLen(s, p),
                    Append(pieces, SubSeq(s, start, p - 1)))

SplitSentences(normalized) == SplitScan(normalized, 1, <<>>)

\* ------------------------------------------------------ the batching loop
\* the test of line 144 that flushes the current batch
ExceedsNoSeparator(current_batch, sentence, max_chars) ==
  current_batch # <<>> /\ Len(current_batch) + Len(sentence) > max_chars

ExceedsOrFills(current_batch, sentence, max_chars) ==
  current_batch # <<>> /\ Len(current_batch) + Len(sentence) + 1 >= max_chars

Exceeds(current_batch, sentence, max_chars) ==
  current_batch # <<>> /\ Len(current_batch) + Len(sentence) + 1 > max_chars

\* line 148: the sentence appended to the current batch
ExtendNoSpace(current_batch, sentence) ==
  IF current_batch # <<>> THEN Strip(current_batch \o sentence) ELSE sentence

Extend(current_batch, sentence) ==
  IF current_batch # <<>> THEN Strip(current_batch \o <<" ">> \o sentence)
  ELSE sentence

\* lines 150-151: the last batch appended after the loop
FlushDropped(batches, current_batch) == batches

Flush(batches, current_batch) ==
  IF current_batch # <<>> THEN Append(batches, current_batch) ELSE batches

RECURSIVE BatchLoop(_, _, _, _, _)
BatchLoop(sentences, i, batches, current_batch, max_chars) ==
  IF i > Len(sentences) THEN Flush(batches, current_batch)
  ELSE LET sentence == Strip(sentences[i])
       IN IF sentence = <<>>
          THEN BatchLoop(sentences, i + 1, batches, current_batch, max_chars)
          ELSE IF Exceeds(current_batch, sentence, max_chars)
          THEN BatchLoop(sentences, i + 1, Append(batches, current_batch),
                         sentence, max_chars)
          ELSE BatchLoop(sentences, i + 1, batches,
                         Extend(current_batch, sentence), max_chars)

_split_into_batches(text, max_chars) ==
  BatchLoop(SplitSentences(Normalize(text)), 1, <<>>, <<>>, max_chars)

\* ---------------------------------------------------------------- texts
\* n copies of the character c
Repeat(c, n) == [i \in 1..n |-> c]

\* a sentence of n characters
SentenceOfLen(n) == Repeat(Letter, n - 1) \o <<".">>


\* the i-th of the long sentences: they differ in length, so in text
LongSentence(i) == SentenceOfLen(149 + i)

\* k long sentences, separated by single spaces
RECURSIVE LongText(_)
LongText(k) ==
  IF k = 0 THEN <<>>
  ELSE IF k = 1 THEN LongSentence(1)
  ELSE LongText(k - 1) \o <<" ">> \o LongSentence(k)

HelloText ==
  <<"H", "e", "l", "l", "o", " ", "t", "h", "e", "r", "e", ".", " ", "T", "h", "i", "s", " ", "i", "s", " ", "a", " ", "t", "e", "s", "t", "!", " ", "R", "e", "a", "l", "l", "y", "?">>

TwoSentences150 == SentenceOfLen(150) \o <<" ">> \o SentenceOfLen(150)

RECURSIVE SeqsUpTo(_)
SeqsUpTo(n) ==
  IF n = 0 THEN {<<>>}
  ELSE LET shorter == SeqsUpTo(n - 1)
       IN shorter \cup {Append(t, c) : t \in {u \in shorter : Len(u) = n - 1},
                                       c \in Alphabet}

\* the inputs of _split_into_batches
SplitInputs ==
  (SeqsUpTo(MaxLen) \X (1..MaxBudget))
    \cup ({HelloText, TwoSentences150} \X {DefaultMaxChars})

\* ------------------------------------------------------------ Python values
None == <<"None">>
Truthy(v) == v # None /\ v # <<>>

AudioData == <<"base64">>
TtsError == <<"TTS generation failed">>

NoResponse == [status |-> 0, segments |-> <<>>, text |-> None]
ErrorResponse(code) == [status |-> code, segments |-> <<>>, text |-> None]

StatusCodes == {401, 429, 502}

\* the prompt of a request
Prompt == <<"h", "i">>

\* request bodies of /api/narrate admitted by the NarrateRequest model
NarrateTexts == {None, <<>>, <<" ">>} \cup {LongText(k) : k \in 1..MaxChunks}
NarrateMessages == {None, <<>>, Prompt}

\* contents the chat completion may carry
GeneratedTexts == {None, <<>>, LongText(2)}

VARIABLES
  fnText, fnMax, fnPc, fnResult,   \* one call of _split_into_batches
  api_key,        \* OPENROUTER_API_KEY is set
  app,            \* position of lifespan: "starting", "serving"
  gradio_client,  \* app.state.gradio_client: "unset", "client", "none"
  endpoint,       \* "none", "chat", "narrate"
  payload,        \* [text, message] of the request
  pc,             \* position of the handler: "idle", "post", "gather", "done"
  text,           \* the local text of narrate, None until it is there
  upstream,       \* outcome of the chat completion request, 0 or a status
  chat_posts,     \* number of http_client.post calls made
  batches,        \* the chunks of the request
  task,           \* state of each _process_tts_batch coroutine
  failure,        \* where each coroutine's try block raised: "none", "predict", "read"
  result,         \* the SegmentResponse each coroutine returned
  finished,       \* the coroutines in the order they returned
  tts_calls,      \* number of client.predict calls started
  response        \* the response of the request

fnVars == <<fnText, fnMax, fnPc, fnResult>>
appVars == <<api_key, app, gradio_client>>
reqVars == <<endpoint, payload, pc, text, upstream, chat_posts, response>>
ttsVars == <<batches, task, failure, result, finished, tts_calls>>
vars == <<fnVars, appVars, reqVars, ttsVars>>

NoPayload == [text |-> None, message |-> None]
NoSegment == [text |-> None, audio |-> None, error |-> None]

\* ------------------------------------------------- _split_into_batches alone
FnIdle ==
  /\ fnText = <<>>
  /\ fnMax = DefaultMaxChars
  /\ fnPc = "unused"
  /\ fnResult = <<>>

ServiceIdle ==
  /\ api_key = FALSE
  /\ app = "starting"
  /\ gradio_client = "unset"
  /\ endpoint = "none"
  /\ payload = NoPayload
  /\ pc = "idle"
  /\ text = None
  /\ upstream = 0
  /\ chat_posts = 0
  /\ batches = <<>>
  /\ task = <<>>
  /\ failure = <<>>
  /\ result = <<>>
  /\ finished = <<>>
  /\ tts_calls = 0
  /\ response = NoResponse

SplitInit ==
  /\ \E in \in SplitInputs : fnText = in[1] /\ fnMax = in[2]
  /\ fnPc = "call"
  /\ fnResult = <<>>
  /\ ServiceIdle

Split ==
  /\ fnPc = "call"
  /\ fnResult' = _split_into_batches(fnText, fnMax)
  /\ fnPc' = "returned"
  /\ UNCHANGED <<fnText, fnMax, appVars, reqVars, ttsVars>>

SplitNext == Split

SplitSpec == SplitInit /\ [][SplitNext]_vars

\* ------------------------------------------------------------- the service
Init ==
  /\ FnIdle
  /\ api_key \in BOOLEAN
  /\ app = "starting"
  /\ gradio_client = "unset"
  /\ endpoint = "none"
  /\ payload = NoPayload
  /\ pc = "idle"
  /\ text = None
  /\ upstream = 0
  /\ chat_posts = 0
  /\ batches = <<>>
  /\ task = <<>>
  /\ failure = <<>>
  /\ result = <<>>
  /\ finished = <<>>
  /\ tts_calls = 0
  /\ response = NoResponse

\* lifespan, lines 43-62: a missing key is logged, a failed Client(...) leaves
\* gradio_client None, and the application starts serving either way
StartupRefusesMissingKey(key) == key

StartupCompletes(key) == TRUE

Lifespan ==
  /\ app = "starting"
  /\ StartupCompletes(api_key)
  /\ app' = "serving"
  /\ gradio_client' \in {"client", "none"}
  /\ UNCHANGED <<fnVars, api_key, reqVars, ttsVars>>

\* line 106: if not OPENROUTER_API_KEY
KeyNeverMissing(key) == FALSE

KeyMissing(key) == ~key

\* line 206: if not client
ClientNeverMissing(client) == FALSE

ClientMissing(client) == client # "client"

\* lines 170-173 and 176: the two SegmentResponse values of _process_tts_batch
AudioSegment(chunk) == [text |-> chunk, audio |-> AudioData, error |-> None]

ErrorSegmentNoMarker(chunk) == [text |-> chunk, audio |-> None, error |-> None]

ErrorSegment(chunk) == [text |-> chunk, audio |-> None, error |-> TtsError]

\* line 210: asyncio.gather resolves when every awaitable has, and returns
\* the results in the order of the awaitables
GatherFirstCompleted(t) == \E i \in 1..Len(t) : t[i] = "done"

GatherDone(t) == \A i \in 1..Len(t) : t[i] = "done"

GatherAsCompleted(res, fin) == [k \in 1..Len(fin) |-> res[fin[k]]]

GatherResults(res, fin) == [i \in 1..Len(res) |-> res[i]]

\* lines 203-210 of narrate, run without suspension once the text is there:
\* split, check the client, create the coroutines and await them jointly
FanOut(new_text) ==
  IF new_text = None
  THEN \* _split_into_batches(None) raises AttributeError: unhandled, 500
       /\ text' = None
       /\ response' = ErrorResponse(500)
       /\ pc' = "done"
       /\ UNCHANGED ttsVars
  ELSE LET chunks == _split_into_batches(new_text, DefaultMaxChars)
       IN /\ text' = new_text
          /\ batches' = chunks
          /\ IF ClientMissing(gradio_client)
             THEN /\ response' = ErrorResponse(503)
                  /\ pc' = "done"
                  /\ UNCHANGED <<task, failure, result, finished, tts_calls>>
             ELSE /\ task' = [i \in 1..Len(chunks) |-> "created"]
                  /\ failure' = [i \in 1..Len(chunks) |-> "none"]
                  /\ result' = [i \in 1..Len(chunks) |-> NoSegment]
                  /\ pc' = "gather"
                  /\ UNCHANGED <<finished, tts_calls, response>>

\* _generate_text up to its await, lines 106-124
GenerateTextStart ==
  IF KeyMissing(api_key)
  THEN /\ response' = ErrorResponse(503)
       /\ pc' = "done"
       /\ UNCHANGED chat_posts
  ELSE /\ chat_posts' = chat_posts + 1
       /\ pc' = "post"
       /\ UNCHANGED response

\* POST /api/chat, lines 189-190
Chat(message) ==
  /\ app = "serving"
  /\ pc = "idle"
  /\ endpoint' = "chat"
  /\ payload' = [text |-> None, message |-> message]
  /\ GenerateTextStart
  /\ UNCHANGED <<fnVars, appVars, text, upstream, ttsVars>>

\* POST /api/narrate, lines 195-210
Narrate(req_text, message) ==
  /\ app = "serving"
  /\ pc = "idle"
  /\ endpoint' = "narrate"
  /\ payload' = [text |-> req_text, message |-> message]
  /\ IF Truthy(req_text)
     THEN FanOut(req_text) /\ UNCHANGED chat_posts
     ELSE IF Truthy(message)
     THEN GenerateTextStart /\ UNCHANGED <<text, ttsVars>>
     ELSE /\ response' = ErrorResponse(400)
          /\ pc' = "done"
          /\ UNCHANGED <<text, chat_posts, ttsVars>>
  /\ UNCHANGED <<fnVars, appVars, upstream>>

\* lines 125-127: the completion arrives and carries content
PostReturns(content) ==
  /\ pc = "post"
  /\ upstream' = 200
  /\ IF endpoint = "chat"
     THEN /\ response' = [status |-> 200, segments |-> <<>>, text |-> content]
          /\ pc' = "done"
          /\ UNCHANGED <<text, ttsVars>>
     ELSE FanOut(content)
  /\ UNCHANGED <<fnVars, appVars, endpoint, payload, chat_posts>>

\* lines 128-130: raise_for_status raised HTTPStatusError
PostStatusError(code) ==
  /\ pc = "post"
  /\ upstream' = code
  /\ response' = ErrorResponse(code)
  /\ pc' = "done"
  /\ UNCHANGED <<fnVars, appVars, endpoint, payload, text, chat_posts,
                 ttsVars>>

\* lines 131-133: any other exception of the request or of reading its body
PostFails ==
  /\ pc = "post"
  /\ upstream' = -1
  /\ response' = ErrorResponse(500)
  /\ pc' = "done"
  /\ UNCHANGED <<fnVars, appVars, endpoint, payload, text, chat_posts,
                 ttsVars>>

\* lines 156-165: the coroutine starts and hands client.predict to the executor
TaskStart(i) ==
  /\ pc \in {"gather", "done"}
  /\ i \in 1..Len(task)
  /\ task[i] = "created"
  /\ task' = [task EXCEPT ![i] = "predict"]
  /\ tts_calls' = tts_calls + 1
  /\ UNCHANGED <<fnVars, appVars, reqVars, batches, failure, result, finished>>

\* client.predict returns the path of the audio file
PredictReturns(i) ==
  /\ i \in 1..Len(task)
  /\ task[i] = "predict"
  /\ task' = [task EXCEPT ![i] = "returned"]
  /\ UNCHANGED <<fnVars, appVars, reqVars, batches, failure, result, finished,
                 tts_calls>>

\* client.predict raises
PredictRaises(i) ==
  /\ i \in 1..Len(task)
  /\ task[i] = "predict"
  /\ task' = [task EXCEPT ![i] = "raised"]
  /\ failure' = [failure EXCEPT ![i] = "predict"]
  /\ UNCHANGED <<fnVars, appVars, reqVars, batches, result, finished, tts_calls>>

\* lines 167-173: the file is read and the audio segment returned
TaskReturnsAudio(i) ==
  /\ i \in 1..Len(task)
  /\ task[i] = "returned"
  /\ task' = [task EXCEPT ![i] = "done"]
  /\ result' = [result EXCEPT ![i] = AudioSegment(batches[i])]
  /\ finished' = Append(finished, i)
  /\ UNCHANGED <<fnVars, appVars, reqVars, batches, failure, tts_calls>>

\* lines 167-168 raise (the file cannot be read), caught at line 174
TaskReadFails(i) ==
  /\ i \in 1..Len(task)
  /\ task[i] = "returned"
  /\ task' = [task EXCEPT ![i] = "done"]
  /\ failure' = [failure EXCEPT ![i] = "read"]
  /\ result' = [result EXCEPT ![i] = ErrorSegment(batches[i])]
  /\ finished' = Append(finished, i)
  /\ UNCHANGED <<fnVars, appVars, reqVars, batches, tts_calls>>

\* lines 174-176: the exception of client.predict is caught
TaskCatches(i) ==
  /\ i \in 1..Len(task)
  /\ task[i] = "raised"
  /\ task' = [task EXCEPT ![i] = "done"]
  /\ result' = [result EXCEPT ![i] = ErrorSegment(batches[i])]
  /\ finished' = Append(finished, i)
  /\ UNCHANGED <<fnVars, appVars, reqVars, batches, failure, tts_calls>>

\* lines 210-212: the gather resolves and the response is built
GatherReturns ==
  /\ pc = "gather"
  /\ GatherDone(task)
  /\ response' = [status |-> 200,
                  segments |-> GatherResults(result, finished),
                  text |-> None]
  /\ pc' = "done"
  /\ UNCHANGED <<fnVars, appVars, endpoint, payload, text, upstream,
                 chat_posts, ttsVars>>

Tasks == 1..MaxChunks

Next ==
  \/ Lifespan
  \/ Chat(Prompt)
  \/ \E req_text \in NarrateTexts, message \in NarrateMessages :
       Narrate(req_text, message)
  \/ \E content \in GeneratedTexts : PostReturns(content)
  \/ \E code \in StatusCodes : PostStatusError(code)
  \/ PostFails
  \/ \E i \in Tasks : TaskStart(i)
  \/ \E i \in Tasks : PredictReturns(i)
  \/ \E i \in Tasks : PredictRaises(i)
  \/ \E i \in Tasks : TaskReturnsAudio(i)
  \/ \E i \in Tasks : TaskReadFails(i)
  \/ \E i \in Tasks : TaskCatches(i)
  \/ GatherReturns

Spec == Init /\ [][Next]_vars

\* The event loop runs every coroutine that is ready, and every call handed
\* to the executor returns or raises.
Fairness ==
  /\ WF_vars(GatherReturns)
  /\ \A i \in Tasks :
       /\ WF_vars(TaskStart(i))
       /\ WF_vars(PredictReturns(i) \/ PredictRaises(i))
       /\ WF_vars(TaskReturnsAudio(i) \/ TaskReadFails(i))
       /\ WF_vars(TaskCatches(i))

FairSpec == Spec /\ Fairness

\* ====================================================== properties: split
Returned == fnPc = "returned"

\* the sentences of the normalized text, as the loop sees them
Sentences(t) ==
  LET pieces == SplitSentences(Normalize(t))
      stripped == [i \in 1..Len(pieces) |-> Strip(pieces[i])]
  IN SelectSeq(stripped, LAMBDA piece : piece # <<>>)

\* the sentences a..b joined by single spaces
RECURSIVE JoinRun(_, _, _)
JoinRun(sents, a, b) ==
  IF a > b THEN <<>>
  ELSE IF a = b THEN sents[a]
  ELSE JoinRun(sents, a, b - 1) \o <<" ">> \o sents[b]

JoinWithSpaces(chunks) == JoinRun(chunks, 1, Len(chunks))

\* the first whitespace character at or after pos, 0 when there is none
NextSpace(s, pos) ==
  LET at == {p \in pos..Len(s) : IsSpace(s[p])}
  IN IF at = {} THEN 0 ELSE CHOOSE p \in at : \A q \in at : p <= q

RECURSIVE Collapse(_, _, _)
Collapse(s, pos, out) ==
  LET p == NextSpace(s, pos)
  IN IF p = 0 THEN out \o SubSeq(s, pos, Len(s))
     ELSE Collapse(s, p + SpaceRun(s, p), out \o SubSeq(s, pos, p - 1) \o <<" ">>)

\* every run of whitespace collapsed to one space, the ends trimmed
CollapseWhitespace(s) == Collapse(Strip(s), 1, <<>>)

\* the chunks are the joins of consecutive runs of the sentences that cover them
IsPartition(chunks, sents) ==
  IF Len(chunks) = 0 THEN Len(sents) = 0
  ELSE \E last \in [1..Len(chunks) -> 1..Len(sents)] :
         /\ last[Len(chunks)] = Len(sents)
         /\ \A m \in 1..Len(chunks) :
              LET first == IF m = 1 THEN 1 ELSE last[m - 1] + 1
              IN /\ first <= last[m]
                 /\ chunks[m] = JoinRun(sents, first, last[m])

SentenceCount(chunk) == Len(SplitSentences(chunk))
FirstSentence(chunk) == SplitSentences(chunk)[1]

\* C3: every returned chunk is within the budget or is exactly one sentence,
\* and a sentence longer than the budget is a chunk of its own.
C3_BudgetBound ==
  Returned =>
    /\ \A m \in 1..Len(fnResult) :
         \/ Len(fnResult[m]) <= fnMax
         \/ \E i \in 1..Len(Sentences(fnText)) : fnResult[m] = Sentences(fnText)[i]
    /\ \A i \in 1..Len(Sentences(fnText)) :
         Len(Sentences(fnText)[i]) > fnMax =>
           \E m \in 1..Len(fnResult) : fnResult[m] = Sentences(fnText)[i]

C3_Witness ==
  /\ Returned
  /\ \E m \in 1..Len(fnResult) : Len(fnResult[m]) > fnMax
  /\ \E m \in 1..Len(fnResult) : Len(fnResult[m]) <= fnMax

\* C4: the chunks joined by single spaces, whitespace collapsed and trimmed,
\* are the input with whitespace collapsed and trimmed.
C4_RoundTrip ==
  Returned =>
    CollapseWhitespace(JoinWithSpaces(fnResult)) = CollapseWhitespace(fnText)

C4_Witness ==
  /\ Returned
  /\ \E m \in 1..Len(fnResult) : SentenceCount(fnResult[m]) >= 2
  /\ \E i \in 1..Len(fnText) : fnText[i] = "\n"
  /\ fnText # JoinWithSpaces(fnResult)

\* C5: every chunk is non-empty and the chunks are, in order, the single-space
\* joins of consecutive runs of the sentences, each sentence in exactly one.
C5_SentencePartition ==
  Returned =>
    /\ \A m \in 1..Len(fnResult) : fnResult[m] # <<>>
    /\ IsPartition(fnResult, Sentences(fnText))

C5_Witness ==
  /\ Returned
  /\ Len(fnResult) >= 2
  /\ Len(Sentences(fnText)) > Len(fnResult)

\* C6, as stated: no chunk holds a newline, a tab or two whitespace
\* characters in a row.
C6_OnlySingleSpaces ==
  Returned =>
    \A m \in 1..Len(fnResult) :
      \A i \in 1..Len(fnResult[m]) :
        /\ fnResult[m][i] \notin {"\n", "\t"}
        /\ i > 1 => ~(IsSpace(fnResult[m][i - 1]) /\ IsSpace(fnResult[m][i]))

\* C6, amended: no chunk holds a newline, no chunk starts or ends with
\* whitespace, and whitespace after a sentence end inside a chunk is exactly
\* one space.
C6_NoNewlines ==
  Returned =>
    \A m \in 1..Len(fnResult) :
      /\ fnResult[m] = Strip(fnResult[m])
      /\ \A i \in 1..Len(fnResult[m]) :
           /\ fnResult[m][i] # "\n"
           /\ (i > 1 /\ IsTerminator(fnResult[m][i - 1]) /\ IsSpace(fnResult[m][i]))
                => /\ fnResult[m][i] = " "
                   /\ ~IsSpace(fnResult[m][i + 1])

C6_Witness ==
  /\ Returned
  /\ \E i \in 1..Len(Strip(fnText)) : Strip(fnText)[i] = "\n"
  /\ \E m \in 1..Len(fnResult) :
       /\ SentenceCount(fnResult[m]) >= 2
       /\ \E i \in 1..Len(fnResult[m]) : fnResult[m][i] = "\t"

\* C10: a chunk is closed only when the next sentence would not fit: each
\* chunk plus a space plus the first sentence of the next chunk exceeds the
\* budget; and the two examples of the specification.
C10_GreedyPacking ==
  Returned =>
    /\ \A m \in 1..(Len(fnResult) - 1) :
         Len(fnResult[m]) + 1 + Len(FirstSentence(fnResult[m + 1])) > fnMax
    /\ (fnText = HelloText /\ fnMax = 200) => fnResult = <<HelloText>>
    /\ (fnText = TwoSentences150 /\ fnMax = 200)
         => fnResult = <<SentenceOfLen(150), SentenceOfLen(150)>>

C10_Witness ==
  /\ Returned
  /\ Len(fnResult) >= 2
  /\ SentenceCount(fnResult[1]) >= 2
  /\ Len(fnResult[1]) = fnMax

\* ==================================================== properties: service
\* narrate reached line 209: the text is there and the client is present
ReachedFanOut ==
  endpoint = "narrate" /\ text # None /\ gradio_client = "client"

NeedsGeneration ==
  endpoint = "narrate" /\ ~Truthy(payload.text) /\ Truthy(payload.message)

Responded == response.status # 0

\* C1: whatever chunks fail, the request that reached the fan-out answers 200
\* with an audio segment for each chunk whose synthesis raised nothing and an
\* error segment for each chunk whose synthesis raised.
C1_PartialFailureIsolation ==
  (ReachedFanOut /\ Responded) =>
    /\ response.status = 200
    /\ Len(response.segments) = Len(batches)
    /\ \A i \in 1..Len(batches) :
         IF failure[i] = "none"
         THEN response.segments[i].audio # None /\ response.segments[i].error = None
         ELSE response.segments[i].audio = None /\ response.segments[i].error # None

C1_Witness ==
  /\ ReachedFanOut /\ Responded
  /\ \E i, j \in 1..Len(batches) :
       failure[i] = "predict" /\ failure[j] = "none" /\ finished[1] = i

\* C2: the response holds one segment per chunk and segment i carries chunk i
\* of the text and what the synthesis of chunk i produced.
C2_OriginalOrder ==
  (ReachedFanOut /\ Responded) =>
    /\ batches = _split_into_batches(text, DefaultMaxChars)
    /\ Len(response.segments) = Len(batches)
    /\ \A i \in 1..Len(batches) :
         /\ response.segments[i].text = batches[i]
         /\ response.segments[i] = result[i]
         /\ (failure[i] = "none") = (response.segments[i].audio # None)

C2_Witness ==
  /\ ReachedFanOut /\ Responded
  /\ Len(batches) >= 2
  /\ finished[1] # 1
  /\ \E i, j \in 1..Len(batches) : failure[i] = "none" /\ failure[j] # "none"

\* C7: the coroutines of a request are created together, the response is not
\* produced while one of them is unresolved, and the request that awaits them
\* completes with all segments.
C7_JointCompletion ==
  /\ [](pc = "gather" => Len(task) = Len(batches))
  /\ []((ReachedFanOut /\ Responded)
          => \A i \in 1..Len(task) : task[i] = "done")
  /\ (pc = "gather") ~> (/\ pc = "done"
                          /\ response.status = 200
                          /\ Len(response.segments) = Len(batches))

C7_Witness ==
  /\ pc = "done"
  /\ response.status = 200
  /\ Len(response.segments) >= 2
  /\ \E i \in 1..Len(batches) : failure[i] # "none"

\* C8: without the key the application starts and takes requests, no chat
\* completion request is sent, and every request that needs text generation
\* ends with 503.
C8_MissingKeyAtCallTime ==
  ~api_key =>
    /\ app = "starting" => ENABLED Lifespan
    /\ (app = "serving" /\ pc = "idle") => ENABLED Chat(Prompt)
    /\ (app = "serving" /\ pc = "idle") => ENABLED Narrate(None, Prompt)
    /\ chat_posts = 0
    /\ pc # "post"
    /\ (endpoint = "chat" \/ NeedsGeneration)
         => /\ pc = "done"
            /\ response = ErrorResponse(503)
            /\ tts_calls = 0

C8_Witness ==
  /\ ~api_key
  /\ gradio_client = "client"
  /\ NeedsGeneration
  /\ response.status = 503

\* C9: a request that fails before the fan-out ends with its error, without
\* segments and without a TTS call; a TTS call needs the text and the client.
C9_FailuresBeforeFanOut ==
  /\ tts_calls > 0 => (text # None /\ gradio_client = "client")
  /\ (endpoint = "narrate" /\ pc = "done") =>
       LET failed(code) == /\ response = ErrorResponse(code)
                           /\ tts_calls = 0
                           /\ task = <<>>
       IN /\ (~Truthy(payload.text) /\ ~Truthy(payload.message)) => failed(400)
          /\ (NeedsGeneration /\ ~api_key) => failed(503)
          /\ (NeedsGeneration /\ upstream \in StatusCodes) => failed(upstream)
          /\ (NeedsGeneration /\ upstream = -1) => failed(500)
          /\ (text # None /\ gradio_client = "none") => failed(503)

C9_Witness ==
  /\ endpoint = "narrate" /\ pc = "done"
  /\ Truthy(text)
  /\ gradio_client = "none"
  /\ upstream = 200
====
